---- MODULE Spec2Model ----
(***************************************************************************)
(* ChillMCP (src/main.py): the AgentStateManager gauges, its two           *)
(* background timer tasks and the break-tool executor, as asyncio tasks    *)
(* on one event loop.                                                      *)
(*                                                                         *)
(* Scheduling.  asyncio is cooperative: a task runs until it suspends.     *)
(* The only suspension points of this program are asyncio.sleep (lines     *)
(* 41, 49, 74); asyncio.Lock.acquire returns without suspending when the   *)
(* lock is free.  `running` names the task that holds the event loop; a    *)
(* step of task t needs running = t, and the loop resumes a suspended or   *)
(* new task only when running = NoTask.                                    *)
(*                                                                         *)
(* Time.  A sleep is a suspension that the loop ends at some later step;   *)
(* `waited` accounts the seconds each invocation has slept.                *)
(***************************************************************************)
EXTENDS Integers, Sequences, FiniteSets, TLC

(* ------------------------------ bounds -------------------------------- *)

\* Number of executor invocations that can be in flight at once.
NumCallers == 2

\* Invocations whose range has a negative minimum are started only while
\* stress_level is below this value (keeps stress_level finite).
StressCeiling == 102

\* Calls made by the scripted run of SpecScenario (five calls and one more).
MaxCalls == 6

\* SpecReduce tries every range lo .. hi with 0 <= lo <= hi <= RangeLimit.
RangeLimit == 5

\* Calls made by the callers of SpecLifecycle (five that reach level 5, one
\* that waits in the gate, one after it).
LifecycleCalls == 7

(* ------------------------- program constants -------------------------- *)

InitialStress == 50
InitialBossAlert == 0
MaxStress == 100
MaxBossAlert == 5
PenaltySeconds == 20
StressPeriod == 60
DefaultCooldown == 300

(* ------------------------------- tasks -------------------------------- *)

\* Tasks are numbered: invocations 1 .. NumCallers, the two timer tasks of
\* lines 35-36 below zero, and 0 for "no task".
Callers == 1 .. NumCallers
StressTask == -1
CooldownTask == -2
Timers == {StressTask, CooldownTask}
Tasks == Callers \cup Timers
NoTask == 0

\* Reduction ranges <<min, max>> that callers hand to execute_break_tool:
\* the scenario range 0..0, a tool-like range, a range with min > max and a
\* range with a negative minimum (the parameters are plain ints).
ZeroProfile == <<0, 0>>
AllProfiles == {ZeroProfile, <<1, 2>>, <<2, 1>>, <<-20, -10>>}

\* Command lines (boss_alertness, boss_alertness_cooldown) accepted by
\* parse_arguments, with the ranges the callers of that run supply.
Configs ==
    { [alertness |-> 0,  cooldown |-> DefaultCooldown, profiles |-> AllProfiles],
      [alertness |-> 50, cooldown |-> StressPeriod,
       profiles |-> {ZeroProfile, <<1, 2>>, <<2, 1>>}] }

\* calls_left of a run whose callers never stop calling.
Unlimited == 0 - 1

NoState == [stress_level |-> -1, boss_alert_level |-> -1]

\* `status` while get_status has not been called.
NoStatus == [stress_level |-> -1, boss_alert_level |-> -1, waited |-> 0]

VARIABLES
    stress_level,             \* self.stress_level
    boss_alert_level,         \* self.boss_alert_level
    boss_alertness,           \* self.boss_alertness
    boss_alertness_cooldown,  \* self.boss_alertness_cooldown
    profiles,                 \* ranges the callers of this run supply
    lock,                     \* holder of self._lock, or NoTask
    running,                  \* task that holds the event loop, or NoTask
    pc,                       \* position of every task
    profile,                  \* per invocation: <<min_stress_reduction, max_stress_reduction>>
    gate_alert,               \* per invocation: boss_alert_level read at line 72 (-1: not read)
    waited,                   \* per invocation: seconds slept in the penalty gate
    stress_seen,              \* per invocation: stress_level read at line 58 (-1: not read)
    alert_seen,               \* per invocation: boss_alert_level when its roll ran (-1: not yet)
    reduction,                \* per invocation: local `reduction` (line 138)
    boss_increased,           \* per invocation: local `boss_increased` (line 141)
    state,                    \* per invocation: local `state` (line 144)
    did,                      \* per invocation: steps of execute_break_tool done so far
    calls_left,               \* invocations the callers will still start (Unlimited: any number)
    args,                     \* the command line as parse_arguments reads it
    main,                     \* position of __main__ (lines 701-715)
    abandoned,                \* an invocation was cancelled in its penalty wait
    status                    \* what the last get_status read, and the seconds it slept

vars == << stress_level, boss_alert_level, boss_alertness, boss_alertness_cooldown,
           profiles, lock, running, pc, profile, gate_alert, waited, stress_seen,
           alert_seen, reduction, boss_increased, state, did, calls_left,
           args, main, abandoned, status >>

gauges == << stress_level, boss_alert_level >>
config == << boss_alertness, boss_alertness_cooldown, profiles >>
locals == << profile, gate_alert, waited, stress_seen, alert_seen, reduction,
            boss_increased, state, did >>
process == << args, main, abandoned, status >>

(* ------------------------- the code's arithmetic ---------------------- *)

Max(a, b) == IF a >= b THEN a ELSE b
Min(a, b) == IF a <= b THEN a ELSE b

\* Faulty variant of line 57: the bounds are taken in either order.
RandIntEitherOrder(lo, hi) == Min(lo, hi) .. Max(lo, hi)

\* random.randint(lo, hi): the values it can return; empty when lo > hi
\* (randint raises ValueError).
RandInt(lo, hi) == lo .. hi

\* Faulty variants of line 58: the write is lost; the result is not clamped.
ReducedStressLost(s, r) == s
ReducedStressUnclamped(s, r) == s - r

\* line 58: max(0, self.stress_level - reduction)
ReducedStress(s, r) == Max(0, s - r)

\* lines 43-44
IncreasedStress(s) == IF s < MaxStress THEN Min(MaxStress, s + 1) ELSE s

\* Faulty variants of lines 51-52: the level drops by two; it is reset.
DecreasedBossAlertTwice(a) == IF a > 0 THEN Max(0, a - 2) ELSE a
DecreasedBossAlertToZero(a) == IF a > 0 THEN 0 ELSE a

\* lines 51-52
DecreasedBossAlert(a) == IF a > 0 THEN Max(0, a - 1) ELSE a

\* Faulty variants of lines 64-65: <= 5 for < 5; < for <= on the draw; a
\* draw taken from 0 .. 99.
BossNoticesAtCap(draw, alertness, level) == draw <= alertness /\ level <= MaxBossAlert
BossNoticesBelow(draw, alertness, level) == draw < alertness /\ level < MaxBossAlert
BossNoticesFromZero(draw, alertness, level) == draw - 1 <= alertness /\ level < MaxBossAlert

\* lines 64-65: the draw is within the probability and the level below 5
BossNotices(draw, alertness, level) == draw <= alertness /\ level < MaxBossAlert

\* Faulty variant of lines 134-144: steps 2 and 3 swapped.
FollowingSwapped(step) ==
    CASE step = "gate"     -> "roll"
      [] step = "roll"     -> "reduce"
      [] step = "reduce"   -> "snapshot"
      [] step = "snapshot" -> "format"

\* lines 134-144: the step of execute_break_tool that follows `step`
Following(step) ==
    CASE step = "gate"     -> "reduce"
      [] step = "reduce"   -> "roll"
      [] step = "roll"     -> "snapshot"
      [] step = "snapshot" -> "format"

\* Faulty variant of line 72: > 5 for >= 5.
PenaltyNeededAboveMax(level) == level > MaxBossAlert

\* line 72
PenaltyNeeded(level) == level >= MaxBossAlert

(* -------------------------------- Init -------------------------------- *)

\* The state with gauges s and a, configuration c and `calls` invocations to
\* come: no invocation in flight, both timer tasks created (lines 35-36) and
\* not yet run.
Started(s, a, c, calls) ==
    /\ boss_alertness = c.alertness
    /\ boss_alertness_cooldown = c.cooldown
    /\ profiles = c.profiles
    /\ stress_level = s
    /\ boss_alert_level = a
    /\ lock = NoTask
    /\ running = NoTask
    /\ pc = [t \in Tasks |-> IF t \in Callers THEN "idle" ELSE "created"]
    /\ profile = [i \in Callers |-> ZeroProfile]
    /\ gate_alert = [i \in Callers |-> -1]
    /\ waited = [i \in Callers |-> 0]
    /\ stress_seen = [i \in Callers |-> -1]
    /\ alert_seen = [i \in Callers |-> -1]
    /\ reduction = [i \in Callers |-> 0]
    /\ boss_increased = [i \in Callers |-> FALSE]
    /\ state = [i \in Callers |-> NoState]
    /\ did = [i \in Callers |-> << >>]
    /\ calls_left = calls
    /\ args = [boss_alertness |-> c.alertness, boss_alertness_cooldown |-> c.cooldown,
               server |-> TRUE]
    /\ main = "serving"
    /\ abandoned = FALSE
    /\ status = NoStatus

\* After parse_arguments and initialize_state_manager: the manager is built
\* with the gauges of lines 23-24.
Init == \E c \in Configs : Started(InitialStress, InitialBossAlert, c, Unlimited)

(* ----------------------------- the executor --------------------------- *)

\* A caller awaits execute_break_tool(tool_name, lo, hi, ...) (line 114):
\* a tool handler of the server (lines 167-340), or the input loop of the
\* interactive mode (line 656), which awaits one call before it reads the
\* next command.  The invocation takes the first free slot of Callers.
Invoke(i) ==
    /\ main = "serving"
    /\ args.server \/ \A j \in Callers : pc[j] = "idle"
    /\ running = NoTask
    /\ pc[i] = "idle"
    /\ \A j \in Callers : j < i => pc[j] # "idle"
    /\ calls_left # 0
    /\ calls_left' = IF calls_left = Unlimited THEN Unlimited ELSE calls_left - 1
    /\ \E p \in profiles :
          /\ p[1] < 0 => stress_level < StressCeiling
          /\ profile' = [profile EXCEPT ![i] = p]
    /\ pc' = [pc EXCEPT ![i] = "gate"]
    /\ running' = i
    /\ UNCHANGED << gauges, config, process, lock, gate_alert, waited, stress_seen,
                    alert_seen, reduction, boss_increased, state, did >>

\* Faulty variant of lines 72-74: the gate takes the lock and sleeps with it.
ApplyBossPenaltyLocked(i) ==
    /\ running = i
    /\ pc[i] = "gate"
    /\ gate_alert' = [gate_alert EXCEPT ![i] = boss_alert_level]
    /\ did' = [did EXCEPT ![i] = Append(@, "gate")]
    /\ IF PenaltyNeeded(boss_alert_level)
          THEN /\ pc' = [pc EXCEPT ![i] = "penalty"]
               /\ running' = NoTask
               /\ lock' = i
          ELSE /\ pc' = [pc EXCEPT ![i] = Following("gate")]
               /\ running' = running
               /\ lock' = lock
    /\ UNCHANGED << gauges, config, process, profile, waited, stress_seen,
                    alert_seen, reduction, boss_increased, state, calls_left >>

\* Step 1, lines 135 and 70-75: apply_boss_penalty_if_needed reads
\* boss_alert_level without the lock and sleeps 20 s when it is at 5.
ApplyBossPenalty(i) ==
    /\ running = i
    /\ pc[i] = "gate"
    /\ gate_alert' = [gate_alert EXCEPT ![i] = boss_alert_level]
    /\ did' = [did EXCEPT ![i] = Append(@, "gate")]
    /\ IF PenaltyNeeded(boss_alert_level)
          THEN /\ pc' = [pc EXCEPT ![i] = "penalty"]
               /\ running' = NoTask
          ELSE /\ pc' = [pc EXCEPT ![i] = Following("gate")]
               /\ running' = running
    /\ UNCHANGED << gauges, config, process, lock, profile, waited, stress_seen,
                    alert_seen, reduction, boss_increased, state, calls_left >>

\* Faulty variant of lines 72-75: the gate is evaluated again after the wait.
PenaltyElapsedRecheck(i) ==
    /\ running = NoTask
    /\ pc[i] = "penalty"
    /\ waited' = [waited EXCEPT ![i] = @ + PenaltySeconds]
    /\ pc' = [pc EXCEPT ![i] = "gate"]
    /\ running' = i
    /\ UNCHANGED << gauges, config, process, lock, profile, gate_alert, stress_seen,
                    alert_seen, reduction, boss_increased, state, did, calls_left >>

\* line 74-75: asyncio.sleep(20) is over and the loop resumes the invocation.
PenaltyElapsed(i) ==
    /\ running = NoTask
    /\ pc[i] = "penalty"
    /\ waited' = [waited EXCEPT ![i] = @ + PenaltySeconds]
    /\ pc' = [pc EXCEPT ![i] = Following("gate")]
    /\ running' = i
    /\ UNCHANGED << gauges, config, process, lock, profile, gate_alert, stress_seen,
                    alert_seen, reduction, boss_increased, state, did, calls_left >>

\* `async with self._lock` (lines 42, 50, 56, 63, 79): the lock is free at
\* every suspension point, so acquire() takes it without suspending.
Acquire(t) ==
    /\ running = t
    /\ pc[t] \in {"reduce", "roll", "snapshot", "woken"}
    /\ lock = NoTask
    /\ lock' = t
    /\ pc' = [pc EXCEPT ![t] = CASE pc[t] = "reduce"   -> "reduce_locked"
                                  [] pc[t] = "roll"     -> "roll_locked"
                                  [] pc[t] = "snapshot" -> "snapshot_locked"
                                  [] pc[t] = "woken"    -> "mutate_locked"]
    /\ UNCHANGED << gauges, config, process, running, locals, calls_left >>

\* Faulty variant of lines 56-59: the task yields to the event loop after
\* the reduction.
ReduceStressYield(i) ==
    /\ running = i
    /\ pc[i] = "reduce_locked"
    /\ lock = i
    /\ lock' = NoTask
    /\ running' = NoTask
    /\ IF RandInt(profile[i][1], profile[i][2]) = {}
          THEN /\ pc' = [pc EXCEPT ![i] = "raised"]
               /\ UNCHANGED << stress_level, stress_seen, reduction, did >>
          ELSE /\ \E r \in RandInt(profile[i][1], profile[i][2]) :
                     /\ stress_level' = ReducedStress(stress_level, r)
                     /\ reduction' = [reduction EXCEPT ![i] = r]
               /\ stress_seen' = [stress_seen EXCEPT ![i] = stress_level]
               /\ did' = [did EXCEPT ![i] = Append(@, "reduce")]
               /\ pc' = [pc EXCEPT ![i] = Following("reduce")]
    /\ UNCHANGED << boss_alert_level, config, process, profile, gate_alert,
                    waited, alert_seen, boss_increased, state, calls_left >>

\* Faulty variant of lines 56-59: the lock is not released when randint
\* raises.
ReduceStressLeak(i) ==
    /\ running = i
    /\ pc[i] = "reduce_locked"
    /\ lock = i
    /\ IF RandInt(profile[i][1], profile[i][2]) = {}
          THEN /\ pc' = [pc EXCEPT ![i] = "raised"]
               /\ lock' = lock
               /\ UNCHANGED << stress_level, stress_seen, reduction, did >>
          ELSE /\ \E r \in RandInt(profile[i][1], profile[i][2]) :
                     /\ stress_level' = ReducedStress(stress_level, r)
                     /\ reduction' = [reduction EXCEPT ![i] = r]
               /\ lock' = NoTask
               /\ stress_seen' = [stress_seen EXCEPT ![i] = stress_level]
               /\ did' = [did EXCEPT ![i] = Append(@, "reduce")]
               /\ pc' = [pc EXCEPT ![i] = Following("reduce")]
    /\ UNCHANGED << boss_alert_level, config, process, running, profile, gate_alert,
                    waited, alert_seen, boss_increased, state, calls_left >>

\* Step 2, lines 138 and 57-59: reduce_stress under the lock.  With
\* lo > hi randint raises; the lock is released and the exception leaves
\* execute_break_tool.
ReduceStress(i) ==
    /\ running = i
    /\ pc[i] = "reduce_locked"
    /\ lock = i
    /\ lock' = NoTask
    /\ IF RandInt(profile[i][1], profile[i][2]) = {}
          THEN /\ pc' = [pc EXCEPT ![i] = "raised"]
               /\ UNCHANGED << stress_level, stress_seen, reduction, did >>
          ELSE /\ \E r \in RandInt(profile[i][1], profile[i][2]) :
                     /\ stress_level' = ReducedStress(stress_level, r)
                     /\ reduction' = [reduction EXCEPT ![i] = r]
               /\ stress_seen' = [stress_seen EXCEPT ![i] = stress_level]
               /\ did' = [did EXCEPT ![i] = Append(@, "reduce")]
               /\ pc' = [pc EXCEPT ![i] = Following("reduce")]
    /\ UNCHANGED << boss_alert_level, config, process, running, profile, gate_alert,
                    waited, alert_seen, boss_increased, state, calls_left >>

\* Step 3, lines 141 and 63-68: maybe_increase_boss_alert under the lock.
MaybeIncreaseBossAlert(i, draw) ==
    /\ running = i
    /\ pc[i] = "roll_locked"
    /\ lock = i
    /\ lock' = NoTask
    /\ IF BossNotices(draw, boss_alertness, boss_alert_level)
          THEN /\ boss_alert_level' = boss_alert_level + 1
               /\ boss_increased' = [boss_increased EXCEPT ![i] = TRUE]
          ELSE /\ boss_alert_level' = boss_alert_level
               /\ boss_increased' = [boss_increased EXCEPT ![i] = FALSE]
    /\ alert_seen' = [alert_seen EXCEPT ![i] = boss_alert_level]
    /\ did' = [did EXCEPT ![i] = Append(@, "roll")]
    /\ pc' = [pc EXCEPT ![i] = Following("roll")]
    /\ UNCHANGED << stress_level, config, process, running, profile, gate_alert, waited,
                    stress_seen, reduction, state, calls_left >>

\* Faulty variant of lines 80-83: the level is the one read at the gate.
GetStateStale(i) ==
    /\ running = i
    /\ pc[i] = "snapshot_locked"
    /\ lock = i
    /\ lock' = NoTask
    /\ state' = [state EXCEPT ![i] = [stress_level |-> stress_level,
                                      boss_alert_level |-> gate_alert[i]]]
    /\ did' = [did EXCEPT ![i] = Append(@, "snapshot")]
    /\ pc' = [pc EXCEPT ![i] = Following("snapshot")]
    /\ UNCHANGED << gauges, config, process, running, profile, gate_alert, waited,
                    stress_seen, alert_seen, reduction, boss_increased, calls_left >>

\* Step 4, lines 144 and 79-83: get_state under the lock.
GetState(i) ==
    /\ running = i
    /\ pc[i] = "snapshot_locked"
    /\ lock = i
    /\ lock' = NoTask
    /\ state' = [state EXCEPT ![i] = [stress_level |-> stress_level,
                                      boss_alert_level |-> boss_alert_level]]
    /\ did' = [did EXCEPT ![i] = Append(@, "snapshot")]
    /\ pc' = [pc EXCEPT ![i] = Following("snapshot")]
    /\ UNCHANGED << gauges, config, process, running, profile, gate_alert, waited,
                    stress_seen, alert_seen, reduction, boss_increased, calls_left >>

\* Steps 5-7, lines 147-160: the response is formatted and returned; or the
\* exception of step 2 reaches the caller.  The invocation's locals are gone.
Return(i) ==
    /\ running = i
    /\ pc[i] \in {"format", "raised"}
    /\ pc' = [pc EXCEPT ![i] = "idle"]
    /\ running' = NoTask
    /\ profile' = [profile EXCEPT ![i] = ZeroProfile]
    /\ gate_alert' = [gate_alert EXCEPT ![i] = -1]
    /\ waited' = [waited EXCEPT ![i] = 0]
    /\ stress_seen' = [stress_seen EXCEPT ![i] = -1]
    /\ alert_seen' = [alert_seen EXCEPT ![i] = -1]
    /\ reduction' = [reduction EXCEPT ![i] = 0]
    /\ boss_increased' = [boss_increased EXCEPT ![i] = FALSE]
    /\ state' = [state EXCEPT ![i] = NoState]
    /\ did' = [did EXCEPT ![i] = << >>]
    /\ UNCHANGED << gauges, config, process, lock, calls_left >>

(* ------------------------------ the timers ---------------------------- *)

\* lines 35-36, 40-41 and 48-49: a created timer task gets its first turn and
\* suspends in asyncio.sleep.
TimerStart(t) ==
    /\ running = NoTask
    /\ pc[t] = "created"
    /\ pc' = [pc EXCEPT ![t] = "sleep"]
    /\ UNCHANGED << gauges, config, process, lock, running, locals, calls_left >>

\* lines 41 and 49: the sleep (60 s, boss_alertness_cooldown s) is over.
TimerWake(t) ==
    /\ running = NoTask
    /\ pc[t] = "sleep"
    /\ pc' = [pc EXCEPT ![t] = "woken"]
    /\ running' = t
    /\ UNCHANGED << gauges, config, process, lock, locals, calls_left >>

\* Faulty variant of lines 41-44: the loop sleeps inside the lock.
AutoIncreaseStressLocked ==
    /\ running = StressTask
    /\ pc[StressTask] = "mutate_locked"
    /\ lock = StressTask
    /\ stress_level' = IncreasedStress(stress_level)
    /\ lock' = lock
    /\ pc' = [pc EXCEPT ![StressTask] = "sleep"]
    /\ running' = NoTask
    /\ UNCHANGED << boss_alert_level, config, process, locals, calls_left >>

\* lines 42-44, then the loop sleeps again (line 41).
AutoIncreaseStress ==
    /\ running = StressTask
    /\ pc[StressTask] = "mutate_locked"
    /\ lock = StressTask
    /\ stress_level' = IncreasedStress(stress_level)
    /\ lock' = NoTask
    /\ pc' = [pc EXCEPT ![StressTask] = "sleep"]
    /\ running' = NoTask
    /\ UNCHANGED << boss_alert_level, config, process, locals, calls_left >>

\* Faulty variant of lines 50-52: the cooldown tick lowers the other gauge.
AutoDecreaseStress ==
    /\ running = CooldownTask
    /\ pc[CooldownTask] = "mutate_locked"
    /\ lock = CooldownTask
    /\ stress_level' = Max(0, stress_level - 1)
    /\ lock' = NoTask
    /\ pc' = [pc EXCEPT ![CooldownTask] = "sleep"]
    /\ running' = NoTask
    /\ UNCHANGED << boss_alert_level, config, process, locals, calls_left >>

\* lines 50-52, then the loop sleeps again (line 49).
AutoDecreaseBossAlert ==
    /\ running = CooldownTask
    /\ pc[CooldownTask] = "mutate_locked"
    /\ lock = CooldownTask
    /\ boss_alert_level' = DecreasedBossAlert(boss_alert_level)
    /\ lock' = NoTask
    /\ pc' = [pc EXCEPT ![CooldownTask] = "sleep"]
    /\ running' = NoTask
    /\ UNCHANGED << stress_level, config, process, locals, calls_left >>

(* --------------------------- the status query ------------------------- *)

\* Faulty variant of line 356: the query goes through the penalty gate first.
GetStatusGated ==
    /\ main = "serving"
    /\ running = NoTask
    /\ lock = NoTask
    /\ status' = [stress_level |-> stress_level,
                  boss_alert_level |-> boss_alert_level,
                  waited |-> IF PenaltyNeeded(boss_alert_level)
                                THEN PenaltySeconds ELSE 0]
    /\ UNCHANGED << gauges, config, args, main, abandoned, lock, running, pc,
                    locals, calls_left >>

\* lines 347-391 (and the status command, lines 616-646): get_status awaits
\* get_state, which takes the free lock, reads both gauges and releases it,
\* and formats the answer, all in one turn of the event loop.
GetStatus ==
    /\ main = "serving"
    /\ running = NoTask
    /\ lock = NoTask
    /\ status' = [stress_level |-> stress_level,
                  boss_alert_level |-> boss_alert_level,
                  waited |-> 0]
    /\ UNCHANGED << gauges, config, args, main, abandoned, lock, running, pc,
                    locals, calls_left >>

(* ------------------------------- Next --------------------------------- *)

\* random.randint(1, 100) of line 64: every value, and the values on either
\* side of the thresholds of Configs.
AllDraws == RandInt(1, 100)
EdgeDraws == {1, 50, 51, 100}

\* One step of an executor invocation, the roll drawn from D.
CallStep(D) ==
    \/ \E i \in Callers : Invoke(i)
    \/ \E i \in Callers : ApplyBossPenalty(i)
    \/ \E i \in Callers : PenaltyElapsed(i)
    \/ \E i \in Callers : Acquire(i)
    \/ \E i \in Callers : ReduceStress(i)
    \/ \E i \in Callers : \E draw \in D : MaybeIncreaseBossAlert(i, draw)
    \/ \E i \in Callers : GetState(i)
    \/ \E i \in Callers : Return(i)

StressTimerStep ==
    \/ TimerStart(StressTask)
    \/ TimerWake(StressTask)
    \/ Acquire(StressTask)
    \/ AutoIncreaseStress

CooldownTimerStep ==
    \/ TimerStart(CooldownTask)
    \/ TimerWake(CooldownTask)
    \/ Acquire(CooldownTask)
    \/ AutoDecreaseBossAlert

Next == CallStep(EdgeDraws) \/ StressTimerStep \/ CooldownTimerStep

Spec == Init /\ [][Next]_vars

(* --------------------- single operations, any state ------------------- *)

\* One invocation of the executor (no timer runs in between its steps),
\* entered in a state the program reaches: SpecRoll tries every probability,
\* every alert level and every draw of line 64; SpecReduce every stress
\* value and every range lo .. hi within RangeLimit.
InitRoll ==
    \E p \in 0 .. 100 : \E a \in 0 .. MaxBossAlert :
        /\ p = 0 => a = 0
        /\ Started(InitialStress, a,
                   [alertness |-> p, cooldown |-> DefaultCooldown,
                    profiles |-> {ZeroProfile}], 1)

SpecRoll == InitRoll /\ [][CallStep(AllDraws)]_vars

InitReduce ==
    \E s \in 0 .. MaxStress : \E lo \in 0 .. RangeLimit : \E hi \in lo .. RangeLimit :
        \E a \in {InitialBossAlert, MaxBossAlert} :
            Started(s, a,
                    [alertness |-> 50, cooldown |-> DefaultCooldown,
                     profiles |-> {<< lo, hi >>}], 1)

SpecReduce == InitReduce /\ [][CallStep(EdgeDraws)]_vars

(* ------------------------- the scripted scenario ---------------------- *)

\* alertness = 100, cooldown = 300, MaxCalls calls with the range 0 .. 0,
\* all within the first sleep of the cooldown timer (line 49).
InitScenario ==
    Started(InitialStress, InitialBossAlert,
            [alertness |-> 100, cooldown |-> DefaultCooldown,
             profiles |-> {ZeroProfile}], MaxCalls)

NextScenario == CallStep(EdgeDraws) \/ StressTimerStep \/ TimerStart(CooldownTask)

SpecScenario == InitScenario /\ [][NextScenario]_vars

(* ------------------------------ scheduling ---------------------------- *)

\* The steps a task takes while it holds the event loop.
CallerRun(i) ==
    \/ ApplyBossPenalty(i)
    \/ Acquire(i)
    \/ ReduceStress(i)
    \/ \E draw \in EdgeDraws : MaybeIncreaseBossAlert(i, draw)
    \/ GetState(i)
    \/ Return(i)

TimerRun ==
    \/ \E t \in Timers : Acquire(t)
    \/ AutoIncreaseStress
    \/ AutoDecreaseBossAlert

\* The event loop: a task it has resumed runs on to its next suspension,
\* and an invocation whose asyncio.sleep(20) is over is resumed after
\* finitely many turns of other tasks (the loop's ready queue is first in,
\* first out).  Nothing obliges a caller to call or a timer to wake.
LoopFairness ==
    /\ WF_vars(TimerRun)
    /\ \A i \in Callers : WF_vars(CallerRun(i)) /\ SF_vars(PenaltyElapsed(i))

\* A run late in the life of the process (the drift timer has brought
\* stress to 99), alertness 50, callers with the range 0 .. 0 and with an
\* inverted range.
InitLive ==
    Started(MaxStress - 1, InitialBossAlert,
            [alertness |-> 50, cooldown |-> DefaultCooldown,
             profiles |-> {ZeroProfile, << 2, 1 >>}], Unlimited)

SpecLive == InitLive /\ [][Next]_vars /\ LoopFairness

\* The timers: a created task gets its first turn, and a sleep of 60 s or
\* of boss_alertness_cooldown s (lines 41, 49) ends and its task is resumed,
\* after finitely many turns of other tasks.
TimerFairness ==
    \A t \in Timers : SF_vars(TimerStart(t)) /\ SF_vars(TimerWake(t))

\* As InitLive, the callers supplying the range 0 .. 0 and a range with a
\* negative minimum.
InitDecay ==
    Started(MaxStress - 1, InitialBossAlert,
            [alertness |-> 50, cooldown |-> DefaultCooldown,
             profiles |-> {ZeroProfile, << -20, -10 >>}], Unlimited)

SpecDecay == InitDecay /\ [][Next]_vars /\ LoopFairness /\ TimerFairness

(* ------------------------ start-up and shutdown ----------------------- *)

\* Values of --boss_alertness and --boss_alertness_cooldown on the command
\* line (type=int, lines 404 and 411): inside, on and beyond the limits of
\* lines 426 and 429.
ArgAlertness == {0 - 1, 0, 100, 101}
ArgCooldowns == {0 - 1, 0, 1}

\* A field of the manager while state_manager is None (line 87).
Unset == 0 - 1

\* Faulty variant of lines 426-430: a cooldown of 0 passes.
AcceptedZeroCooldown(a) ==
    /\ 0 <= a.boss_alertness /\ a.boss_alertness <= 100
    /\ ~ (a.boss_alertness_cooldown < 0)

\* lines 426-430: the checks of parse_arguments
Accepted(a) ==
    /\ 0 <= a.boss_alertness /\ a.boss_alertness <= 100
    /\ ~ (a.boss_alertness_cooldown <= 0)

\* The process at line 703, with command line a: no manager, no task.
Launched(a, ps, calls) ==
    /\ args = a
    /\ main = "parsing"
    /\ abandoned = FALSE
    /\ status = NoStatus
    /\ boss_alertness = Unset
    /\ boss_alertness_cooldown = Unset
    /\ stress_level = Unset
    /\ boss_alert_level = Unset
    /\ profiles = ps
    /\ lock = NoTask
    /\ running = NoTask
    /\ pc = [t \in Tasks |-> IF t \in Callers THEN "idle" ELSE "none"]
    /\ profile = [i \in Callers |-> ZeroProfile]
    /\ gate_alert = [i \in Callers |-> -1]
    /\ waited = [i \in Callers |-> 0]
    /\ stress_seen = [i \in Callers |-> -1]
    /\ alert_seen = [i \in Callers |-> -1]
    /\ reduction = [i \in Callers |-> 0]
    /\ boss_increased = [i \in Callers |-> FALSE]
    /\ state = [i \in Callers |-> NoState]
    /\ did = [i \in Callers |-> << >>]
    /\ calls_left = calls

\* line 703: parse_arguments returns the arguments, or parser.error ends
\* the process (lines 427, 430).
ParseArguments ==
    /\ main = "parsing"
    /\ main' = IF Accepted(args) THEN "parsed" ELSE "rejected"
    /\ UNCHANGED << gauges, config, args, status, abandoned, lock, running, pc, locals,
                    calls_left >>

\* lines 435-445 (server) and 578-598 (interactive): the manager is built
\* from the arguments as they are (lines 22-31 check nothing) and both timer
\* tasks are created.
InitializeStateManager ==
    /\ main = "parsed"
    /\ main' = "serving"
    /\ stress_level' = InitialStress
    /\ boss_alert_level' = InitialBossAlert
    /\ boss_alertness' = args.boss_alertness
    /\ boss_alertness_cooldown' = args.boss_alertness_cooldown
    /\ pc' = [t \in Tasks |-> IF t \in Timers THEN "created" ELSE pc[t]]
    /\ UNCHANGED << profiles, args, status, abandoned, lock, running, locals, calls_left >>

\* line 74 raises CancelledError in an invocation that sleeps in the gate
\* (the server drops the request): the exception leaves execute_break_tool.
Interrupt(i) ==
    /\ main = "serving"
    /\ args.server
    /\ running = NoTask
    /\ pc[i] = "penalty"
    /\ pc' = [pc EXCEPT ![i] = "idle"]
    /\ profile' = [profile EXCEPT ![i] = ZeroProfile]
    /\ gate_alert' = [gate_alert EXCEPT ![i] = -1]
    /\ waited' = [waited EXCEPT ![i] = 0]
    /\ did' = [did EXCEPT ![i] = << >>]
    /\ abandoned' = TRUE
    /\ UNCHANGED << gauges, config, args, status, main, lock, running, stress_seen,
                    alert_seen, reduction, boss_increased, state, calls_left >>

\* Faulty variant of lines 694-698: only the stress task is cancelled.
CleanUpStressOnly ==
    /\ main = "serving"
    /\ ~ args.server
    /\ running = NoTask
    /\ \A i \in Callers : pc[i] = "idle"
    /\ main' = "stopped"
    /\ pc' = [pc EXCEPT ![StressTask] = "cancelled"]
    /\ UNCHANGED << gauges, config, args, status, abandoned, lock, running, locals,
                    calls_left >>

\* lines 694-698: the input loop of the interactive mode has ended (no call
\* in flight) and cancels both timer tasks; run_interactive_mode returns.
CleanUp ==
    /\ main = "serving"
    /\ ~ args.server
    /\ running = NoTask
    /\ \A i \in Callers : pc[i] = "idle"
    /\ main' = "stopped"
    /\ pc' = [t \in Tasks |-> IF t \in Timers THEN "cancelled" ELSE pc[t]]
    /\ UNCHANGED << gauges, config, args, status, abandoned, lock, running, locals,
                    calls_left >>

\* lines 712 and 715: the coroutine handed to asyncio.run ends (the server
\* returns, the interactive loop is interrupted) and asyncio.run cancels
\* every task that is left: both timers in their sleep, and the invocations
\* in the sleep of line 74.
RunExits ==
    /\ main = "serving"
    /\ running = NoTask
    /\ main' = "stopped"
    /\ pc' = [t \in Tasks |-> IF t \in Timers THEN "cancelled" ELSE "idle"]
    /\ profile' = [i \in Callers |-> ZeroProfile]
    /\ gate_alert' = [i \in Callers |-> -1]
    /\ waited' = [i \in Callers |-> 0]
    /\ did' = [i \in Callers |-> << >>]
    /\ abandoned' = (abandoned \/ \E i \in Callers : pc[i] = "penalty")
    /\ UNCHANGED << gauges, config, args, status, lock, running, stress_seen, alert_seen,
                    reduction, boss_increased, state, calls_left >>

\* Every command line of ArgAlertness x ArgCooldowns in either mode; the
\* callers make LifecycleCalls calls.
InitLifecycle ==
    \E a \in ArgAlertness : \E c \in ArgCooldowns : \E s \in BOOLEAN :
        Launched([boss_alertness |-> a, boss_alertness_cooldown |-> c, server |-> s],
                 {ZeroProfile, << 1, 2 >>}, LifecycleCalls)

NextLifecycle ==
    \/ ParseArguments
    \/ InitializeStateManager
    \/ CallStep(EdgeDraws)
    \/ StressTimerStep
    \/ CooldownTimerStep
    \/ \E i \in Callers : Interrupt(i)
    \/ CleanUp
    \/ RunExits

SpecLifecycle == InitLifecycle /\ [][NextLifecycle]_vars

(* ------------------------- calls and status queries ------------------- *)

\* alertness = 100, late in the life of the process, MaxCalls calls with the
\* range 0 .. 0, and status queries at any time.
InitStatus ==
    Started(MaxStress - 1, InitialBossAlert,
            [alertness |-> 100, cooldown |-> DefaultCooldown,
             profiles |-> {ZeroProfile}], MaxCalls)

NextStatus == Next \/ GetStatus

SpecStatus == InitStatus /\ [][NextStatus]_vars

(* ------------------------------- claims ------------------------------- *)

\* Positions of an invocation after its penalty gate.
PastGate == {"reduce", "reduce_locked", "roll", "roll_locked", "snapshot",
             "snapshot_locked", "format", "raised"}

\* C1: in every reachable state stress is within [0,100] and alertLevel
\* within [0,5], whatever reduction ranges the callers supply.
C1_GaugesInBounds ==
    /\ stress_level \in 0 .. MaxStress
    /\ boss_alert_level \in 0 .. MaxBossAlert

\* The reduction step of invocation i reads stress as it is at that step,
\* draws within the range and writes the clamped difference.
StepIsSerial(i) ==
    /\ stress_seen'[i] = stress_level
    /\ reduction'[i] \in RandInt(profile[i][1], profile[i][2])
    /\ stress_level' = IF stress_level - reduction'[i] > 0
                          THEN stress_level - reduction'[i] ELSE 0

\* C2: with several invocations in flight, stress changes only in a drift
\* tick or in the reduction step of one invocation, and that step subtracts
\* the invocation's draw from the value stress has at that step (clamped at
\* 0): the final stress is the serial application of every reduction, none
\* lost and none computed on a stale read.
C2_NoLostUpdate ==
    [][ /\ \A i \in Callers :
              (pc[i] = "reduce_locked" /\ pc'[i] \notin {"reduce_locked", "raised"})
                  => StepIsSerial(i)
        /\ stress_level' # stress_level =>
              \/ pc[StressTask] = "mutate_locked" /\ pc'[StressTask] = "sleep"
              \/ \E i \in Callers : pc[i] = "reduce_locked" /\ pc'[i] # "reduce_locked"
      ]_vars
C2_Witness ==
    \E i, j \in Callers :
        /\ i # j
        /\ pc[i] = "roll" /\ reduction[i] > 0 /\ stress_level < stress_seen[i]
        /\ pc[j] = "penalty"

\* C3: an invocation that read alertLevel = 5 at entry has not touched
\* stress, and is still in its penalty wait, until it has waited 20 seconds.
C3_PenaltyBeforeReduction ==
    \A i \in Callers :
        (gate_alert[i] >= MaxBossAlert /\ waited[i] < PenaltySeconds)
            => (pc[i] = "penalty" /\ stress_seen[i] = -1)
C3_Witness ==
    \E i \in Callers :
        /\ gate_alert[i] = MaxBossAlert
        /\ waited[i] = PenaltySeconds
        /\ pc[i] = "roll"
        /\ stress_level < stress_seen[i]

\* An invocation past its gate has waited exactly 20 seconds if it read
\* alertLevel = 5 and not at all otherwise; only one that read 5 is waiting.
GateOnce ==
    \A i \in Callers :
        /\ pc[i] \in PastGate =>
              waited[i] = IF gate_alert[i] >= MaxBossAlert THEN PenaltySeconds ELSE 0
        /\ pc[i] = "penalty" => (gate_alert[i] >= MaxBossAlert /\ waited[i] = 0)
        /\ pc[i] \in {"idle", "gate"} => waited[i] = 0

\* The penalty wait is followed by the stress reduction.
AfterWait ==
    \A i \in Callers :
        (pc[i] = "penalty" /\ pc'[i] # "penalty") => pc'[i] = "reduce"

\* C4: the gate is evaluated once, at entry: an invocation that read
\* alertLevel = 5 serves the whole wait, once, and then goes on to its
\* stress reduction whatever alertLevel is by then; one that read less is
\* not delayed.
C4_PenaltyGateOnce == [] GateOnce /\ [][AfterWait]_vars
C4_Witness ==
    \E i \in Callers :
        /\ gate_alert[i] = MaxBossAlert
        /\ waited[i] = PenaltySeconds
        /\ boss_alert_level < MaxBossAlert
        /\ pc[i] = "roll"

\* What the claim says of a roll of invocation i with draw d.
RollOutcome(i, d) ==
    LET raise == d <= boss_alertness /\ boss_alert_level < 5
    IN  /\ boss_increased'[i] = raise
        /\ boss_alert_level' = IF raise THEN boss_alert_level + 1 ELSE boss_alert_level

\* C5: maybeRaiseAlert with draw d in 1..100 returns true exactly when
\* d <= probability and alertLevel < 5, and then raises alertLevel by one;
\* otherwise (always when alertLevel is 5) it returns false and leaves
\* alertLevel as it is.
C5_MaybeRaiseAlert ==
    [][ \A i \in Callers :
          pc[i] = "roll_locked" =>
              \A d \in 1 .. 100 : MaybeIncreaseBossAlert(i, d) => RollOutcome(i, d)
      ]_vars
C5_Witness ==
    \E i \in Callers :
        /\ pc[i] = "snapshot"
        /\ boss_alertness = 100
        /\ gate_alert[i] = 5
        /\ boss_alert_level = 5
        /\ ~ boss_increased[i]

\* C6: for a range 0 <= lo <= hi, reduceStress returns a draw r in lo .. hi
\* and leaves stress = max(0, s - r), s being stress before the call; r is
\* the draw, which exceeds the drop when stress is clamped at 0.
C6_ReduceStress ==
    \A i \in Callers :
        (pc[i] = "roll" /\ 0 <= profile[i][1] /\ profile[i][1] <= profile[i][2]) =>
            /\ reduction[i] >= profile[i][1]
            /\ reduction[i] <= profile[i][2]
            /\ stress_level = IF stress_seen[i] - reduction[i] > 0
                                 THEN stress_seen[i] - reduction[i] ELSE 0
C6_Witness ==
    \E i \in Callers :
        /\ pc[i] = "roll"
        /\ stress_level = 0
        /\ stress_seen[i] > 0
        /\ reduction[i] > stress_seen[i]

\* A timer task goes round sleep, wake, lock, mutation.
TimerOrder(t) ==
    pc'[t] # pc[t] =>
        << pc[t], pc'[t] >> \in { << "created", "sleep" >>, << "sleep", "woken" >>,
                                  << "woken", "mutate_locked" >>,
                                  << "mutate_locked", "sleep" >> }

\* What the claim says of one step of the timers.
TimerTick ==
    /\ (pc[CooldownTask] = "mutate_locked" /\ pc'[CooldownTask] = "sleep") =>
          /\ boss_alert_level > 0 => boss_alert_level' = boss_alert_level - 1
          /\ boss_alert_level = 0 => boss_alert_level' = 0
          /\ stress_level' = stress_level
    /\ (pc[StressTask] = "mutate_locked" /\ pc'[StressTask] = "sleep") =>
          /\ stress_level < 100 => stress_level' = stress_level + 1
          /\ stress_level = 100 => stress_level' = 100
          /\ boss_alert_level' = boss_alert_level
    /\ \A t \in Timers :
          /\ TimerOrder(t)
          /\ (running = t /\ pc[t] # "mutate_locked") => gauges' = gauges

\* C7: a tick of the cooldown timer lowers alertLevel by exactly 1, or
\* leaves it at 0; a tick of the drift timer raises stress by exactly 1
\* below 100 and leaves it at 100; a timer changes a gauge only in that one
\* mutation, once after each sleep.
C7_TimerTicks == [][TimerTick]_vars
C7_Witness ==
    /\ boss_alert_level = 0
    /\ \E i \in Callers : pc[i] = "penalty"
    /\ pc[CooldownTask] = "sleep"
    /\ stress_level = MaxStress

\* Calls started so far by the scripted run, and all of them returned.
CallsMade == MaxCalls - calls_left
AllReturned == \A i \in Callers : pc[i] = "idle"

\* C8: alertness = 100, range 0 .. 0, no cooldown tick: k completed calls
\* (k <= 5) leave alertLevel = k, so five leave 5; no call changes stress;
\* and every later call serves the penalty wait before its reduction step.
C8_Scenario ==
    /\ (AllReturned /\ CallsMade <= 5) => boss_alert_level = CallsMade
    /\ (AllReturned /\ CallsMade >= 5) => boss_alert_level = 5
    /\ \A i \in Callers :
          /\ stress_seen[i] # -1 => (reduction[i] = 0 /\ stress_level = stress_seen[i])
          /\ (CallsMade >= 6 /\ pc[i] \in PastGate) =>
                (gate_alert[i] = 5 /\ waited[i] = PenaltySeconds)
C8_Witness ==
    /\ CallsMade = 6
    /\ boss_alert_level = 5
    /\ \E i \in Callers :
          pc[i] = "roll" /\ waited[i] = PenaltySeconds /\ stress_level = stress_seen[i]

\* C9: with alertness = 0 alertLevel is 0 in every state, no roll returns
\* true and no invocation is in, or has served, the penalty wait.
C9_NeverNoticed ==
    boss_alertness = 0 =>
        /\ boss_alert_level = 0
        /\ \A i \in Callers :
              /\ ~ boss_increased[i]
              /\ pc[i] # "penalty"
              /\ waited[i] = 0
C9_Witness ==
    /\ boss_alertness = 0
    /\ \E i \in Callers : pc[i] = "format" /\ state[i].boss_alert_level = 0

\* The order of section 4.3: penalty gate, stress reduction, alert roll,
\* snapshot.
StepOrder == << "gate", "reduce", "roll", "snapshot" >>

\* C10: the steps of one invocation occur in the order gate, reduction,
\* roll, snapshot, and it returns its response only after all four.
C10_InOrder ==
    \A i \in Callers :
        /\ Len(did[i]) <= Len(StepOrder)
        /\ did[i] = SubSeq(StepOrder, 1, Len(did[i]))
        /\ pc[i] = "format" <=> did[i] = StepOrder
C10_Witness ==
    \E i \in Callers :
        pc[i] = "format" /\ did[i] = StepOrder /\ waited[i] = PenaltySeconds

\* The snapshot an invocation returns holds the gauges as its own reduction
\* and its own roll left them.
OwnSnapshot ==
    \A i \in Callers :
        pc[i] = "format" =>
            /\ state[i].stress_level =
                  IF stress_seen[i] - reduction[i] > 0
                     THEN stress_seen[i] - reduction[i] ELSE 0
            /\ state[i].boss_alert_level =
                  alert_seen[i] + (IF boss_increased[i] THEN 1 ELSE 0)

\* From an invocation's reduction to its snapshot, the only step that
\* changes a gauge is its own roll.
NotInterposed ==
    \A i \in Callers :
        (pc[i] \in {"roll", "roll_locked", "snapshot", "snapshot_locked"}
         /\ gauges' # gauges)
            => (pc[i] = "roll_locked" /\ pc'[i] = "snapshot")

\* C11: an invocation is atomic from its caller's view: the finalStress and
\* finalAlertLevel it returns are the values its own reduction and its own
\* roll left, with other invocations and both timers running; no other
\* mutation comes between its reduction and its snapshot.
C11_AtomicInvocation == [] OwnSnapshot /\ [][NotInterposed]_vars
C11_Witness ==
    \E i, j \in Callers :
        /\ pc[i] = "format" /\ boss_increased[i] /\ reduction[i] > 0
        /\ pc[j] = "penalty"
        /\ stress_level > InitialStress
        /\ pc[CooldownTask] = "sleep"

\* Positions from which the next step of a task reads or writes a gauge:
\* the gate's read (line 72), the three locked operations of the executor
\* and the mutation of a timer.
GaugeAccess == {"gate", "reduce_locked", "roll_locked", "snapshot_locked",
                "mutate_locked"}

\* C12: every access to a gauge (the gate's read of alertLevel, reduceStress,
\* maybeRaiseAlert, snapshot, both timer mutations) is made by a task that
\* holds the lock, and the lock has at most one holder.
C12_AllAccessLocked ==
    /\ lock \in Tasks \cup {NoTask}
    /\ \A t \in Tasks : (running = t /\ pc[t] \in GaugeAccess) => lock = t

\* Positions in which a task is suspended in asyncio.sleep, or not yet run.
Suspended == {"penalty", "sleep", "created"}

\* Positions from which the next step of a task is to take the lock.
AtLock == {"reduce", "roll", "snapshot", "woken"}

\* C13: no task holds the lock while it is in the penalty wait or in a
\* timer's sleep, the lock is free whenever the event loop is between tasks,
\* and so a task that comes to the lock (a caller's reduction, roll or
\* snapshot, a timer's mutation) takes it at once, whoever sits in the
\* penalty wait.
C13_NoLockAcrossWait ==
    /\ \A t \in Tasks : pc[t] \in Suspended => lock # t
    /\ running = NoTask => lock = NoTask
    /\ \A t \in Tasks : (running = t /\ pc[t] \in AtLock) => ENABLED Acquire(t)
C13_Witness ==
    \E i, j \in Callers :
        /\ pc[i] = "penalty"
        /\ pc[j] = "snapshot_locked"
        /\ lock = j

\* The range of invocation i has its minimum above its maximum.
Inverted(i) == profile[i][1] > profile[i][2]

\* An invocation with an inverted range gets no further than its reduction
\* step: it has drawn nothing and rolled nothing; one that was rejected
\* had an inverted range and has left the lock free.
RejectedUntouched ==
    \A i \in Callers :
        /\ Inverted(i) =>
              /\ pc[i] \in {"gate", "penalty", "reduce", "reduce_locked", "raised"}
              /\ stress_seen[i] = -1
              /\ alert_seen[i] = -1
              /\ ~ boss_increased[i]
        /\ pc[i] = "raised" => (Inverted(i) /\ lock = NoTask)

\* A step of an invocation with an inverted range changes no gauge, and its
\* reduction step ends in the error.
RejectedStep ==
    \A i \in Callers :
        (Inverted(i) /\ pc'[i] # pc[i]) =>
            /\ gauges' = gauges
            /\ pc[i] = "reduce_locked" => (pc'[i] = "raised" /\ lock' = NoTask)

\* C14: an invocation whose range has min > max is rejected with an error
\* and never partially applied: it changes neither stress nor alertLevel,
\* makes no alert roll and leaves the lock free.
C14_InvertedRangeRejected == [] RejectedUntouched /\ [][RejectedStep]_vars
C14_Witness ==
    \E i \in Callers :
        /\ pc[i] = "raised"
        /\ Inverted(i)
        /\ waited[i] = PenaltySeconds
        /\ lock = NoTask

\* The command line is within the limits: alertness in [0,100], cooldown
\* above 0.
ValidArgs ==
    /\ args.boss_alertness \in 0 .. 100
    /\ args.boss_alertness_cooldown > 0

\* C15: a configuration with alertness outside [0,100] or a cooldown <= 0
\* is rejected with an error: with such a command line no manager is ever
\* built and no timer ever started; a manager that exists, and a timer that
\* was started, has alertness in [0,100] and a positive cooldown.
C15_InvalidConfigRejected ==
    /\ ~ ValidArgs =>
          /\ main \in {"parsing", "rejected"}
          /\ boss_alertness = Unset /\ boss_alertness_cooldown = Unset
          /\ \A t \in Timers : pc[t] = "none"
    /\ main = "rejected" => ~ ValidArgs
    /\ (main \in {"serving", "stopped"} \/ \E t \in Timers : pc[t] # "none") =>
          /\ boss_alertness \in 0 .. 100
          /\ boss_alertness_cooldown > 0
C15_Witness ==
    /\ main = "rejected"
    /\ args.boss_alertness = 100
    /\ args.boss_alertness_cooldown = 0

\* After shutdown both timer tasks are cancelled; a cancelled timer does not
\* hold the lock.
TimersCancelled ==
    /\ main = "stopped" => \A t \in Timers : pc[t] = "cancelled"
    /\ \A t \in Timers : pc[t] = "cancelled" => (main = "stopped" /\ lock # t)

\* The step that shuts down finds both timers outside their mutation, with
\* the lock free, and changes no gauge; no later step changes a gauge or
\* takes the lock.
AfterShutdown ==
    /\ (main = "serving" /\ main' = "stopped") =>
          /\ \A t \in Timers : pc[t] \in {"created", "sleep"}
          /\ lock = NoTask /\ lock' = NoTask
          /\ gauges' = gauges
    /\ main = "stopped" => (gauges' = gauges /\ lock' = lock)

\* C16: at shutdown, in the interactive mode and in the server mode, both
\* timers are cancelled: neither mutates a gauge afterwards, and a timer is
\* cancelled in its sleep, with no mutation half done and the lock free.
C16_TimersCancelled == [] TimersCancelled /\ [][AfterShutdown]_vars
C16_Witness ==
    /\ main = "stopped"
    /\ ~ args.server
    /\ boss_alert_level > 0
    /\ stress_level > InitialStress - 2

\* An invocation in its penalty wait has done its gate step and no more: it
\* holds no lock, has drawn nothing and rolled nothing.
WaitingUntouched ==
    \A i \in Callers :
        pc[i] = "penalty" =>
            /\ lock # i
            /\ did[i] = << "gate" >>
            /\ stress_seen[i] = -1 /\ reduction[i] = 0
            /\ alert_seen[i] = -1 /\ ~ boss_increased[i]

\* Once an invocation has been abandoned, a task that comes to the lock
\* still takes it.
StoreUsable ==
    abandoned => \A t \in Tasks : (running = t /\ pc[t] \in AtLock) => ENABLED Acquire(t)

\* The step that abandons a waiting invocation changes no gauge and leaves
\* the lock free.
AbandonedStep ==
    \A i \in Callers :
        (pc[i] = "penalty" /\ pc'[i] = "idle") =>
            /\ abandoned'
            /\ gauges' = gauges
            /\ lock = NoTask /\ lock' = NoTask

\* C20: an invocation interrupted or abandoned in its penalty wait holds no
\* lock and has modified no gauge: the store is left unlocked, stress and
\* alertLevel as the other tasks left them, and later operations proceed.
C20_AbandonedWait == [] (WaitingUntouched /\ StoreUsable) /\ [][AbandonedStep]_vars
C20_Witness ==
    /\ abandoned
    /\ main = "serving"
    /\ lock = NoTask
    /\ \E j \in Callers : pc[j] = "format" /\ reduction[j] > 0

\* The snapshot step changes no gauge and returns both gauges as they are
\* at that step.
SnapshotStep ==
    \A i \in Callers :
        (pc[i] = "snapshot_locked" /\ pc'[i] # "snapshot_locked") =>
            /\ gauges' = gauges
            /\ state'[i].stress_level = stress_level
            /\ state'[i].boss_alert_level = boss_alert_level

\* The pair an invocation holds is the pair of gauges of one state.
ConsistentPair ==
    \A i \in Callers :
        pc[i] = "format" =>
            << state[i].stress_level, state[i].boss_alert_level >> = gauges

\* C17: snapshot (get_state) changes neither stress nor alertLevel, and the
\* pair it returns is the value of both gauges at one instant.
C17_Snapshot == [] ConsistentPair /\ [][SnapshotStep]_vars
C17_Witness ==
    \E i \in Callers :
        /\ pc[i] = "format"
        /\ state[i].stress_level # stress_seen[i]
        /\ state[i].boss_alert_level # gate_alert[i]
        /\ waited[i] = PenaltySeconds

\* What the claim says of the change of alertLevel in one step.
AlertStep ==
    /\ boss_alert_level' - boss_alert_level \in {-1, 0, 1}
    /\ boss_alert_level' = boss_alert_level + 1 =>
          /\ boss_alert_level < 5
          /\ \E i \in Callers : pc[i] = "roll_locked" /\ pc'[i] # "roll_locked"
    /\ boss_alert_level' = boss_alert_level - 1 =>
          /\ boss_alert_level > 0
          /\ pc[CooldownTask] = "mutate_locked" /\ pc'[CooldownTask] = "sleep"

\* C18: every transition changes alertLevel by -1, 0 or +1: +1 only in an
\* invocation's roll while alertLevel < 5, -1 only in a tick of the cooldown
\* timer while alertLevel > 0.
C18_AlertStepsByOne == [][AlertStep]_vars
C18_Witness ==
    /\ boss_alert_level = 4
    /\ \E i \in Callers : gate_alert[i] = 5 /\ pc[i] = "penalty"
    /\ pc[CooldownTask] = "sleep"

\* The task that holds the event loop can take its next step (it never
\* waits for the lock), and between tasks the lock is free and every
\* invocation in the penalty wait can be resumed.
NeverStuck ==
    /\ \A i \in Callers : running = i => ENABLED CallerRun(i)
    /\ \A t \in Timers : running = t => ENABLED TimerRun
    /\ running = NoTask =>
          /\ lock = NoTask
          /\ \A i \in Callers : pc[i] = "penalty" => ENABLED PenaltyElapsed(i)

\* C19: the system never deadlocks and, under fair scheduling, every
\* invocation with a valid range returns its result (one with an inverted
\* range returns its error); the lock, once taken, is released.
C19_EveryCallReturns ==
    /\ [] NeverStuck
    /\ \A i \in Callers :
          /\ (pc[i] = "gate" /\ ~ Inverted(i)) ~> (pc[i] = "format")
          /\ (pc[i] # "idle") ~> (pc[i] = "idle")
    /\ (lock # NoTask) ~> (lock = NoTask)
C19_Witness ==
    \E i, j \in Callers :
        /\ pc[i] = "format" /\ waited[i] = PenaltySeconds
        /\ pc[j] = "penalty"
        /\ pc[StressTask] = "sleep" /\ pc[CooldownTask] = "sleep"

\* No invocation holds a roll that fired; no invocation holds a draw other
\* than 0 (every roll and every draw shows in its invocation until it
\* returns).
NoRaise == \A i \in Callers : ~ boss_increased[i]
NoReduction == \A i \in Callers : reduction[i] = 0

\* The two halves of the claim.
AlertDecays == <>[] NoRaise => <>[] (boss_alert_level = 0)
StressDrifts == <>[] NoReduction => <>[] (stress_level = MaxStress)

\* C21: under fair scheduling of the timers, if from some point on no
\* activity raises alertLevel then alertLevel eventually reaches 0 and stays
\* 0, and if from some point on no activity reduces stress then stress
\* eventually reaches 100 and stays 100.
C21_DecayIsLive == AlertDecays /\ StressDrifts

\* A status query is answered without any wait, and one can be answered
\* whenever the event loop is between tasks.
StatusNotDelayed ==
    /\ status.waited = 0
    /\ (main = "serving" /\ running = NoTask) => ENABLED GetStatus

\* The step that answers a status query changes no gauge, and answers with
\* the gauges as they are.
StatusFrame ==
    status' # status =>
        /\ gauges' = gauges
        /\ status'.stress_level = stress_level
        /\ status'.boss_alert_level = boss_alert_level
        /\ \A i \in Callers : pc'[i] = pc[i] /\ waited'[i] = waited[i]

\* C22: the status query (get_status) changes neither stress nor alertLevel
\* and never serves the penalty wait, also when alertLevel is 5; only an
\* executor invocation is delayed by the gate.
C22_StatusQuery == [] StatusNotDelayed /\ [][StatusFrame]_vars
C22_Witness ==
    /\ status.boss_alert_level = 5
    /\ status.waited = 0
    /\ boss_alert_level = 5
    /\ \E i \in Callers : pc[i] = "penalty"

\* The step in which task t leaves the program point `at`.
Leaves(t, at) == pc[t] = at /\ pc'[t] # at

\* What each primitive leaves alone in the step in which it acts.
OwnGaugeOnly ==
    /\ \A i \in Callers :
          /\ Leaves(i, "reduce_locked") => boss_alert_level' = boss_alert_level
          /\ Leaves(i, "roll_locked") => stress_level' = stress_level
          /\ (Leaves(i, "gate") \/ Leaves(i, "penalty")) => gauges' = gauges
    /\ Leaves(StressTask, "mutate_locked") =>
          boss_alert_level' = boss_alert_level
    /\ Leaves(CooldownTask, "mutate_locked") => stress_level' = stress_level

\* No step changes the configuration the store was constructed with.
ConfigKept ==
    /\ boss_alertness' = boss_alertness
    /\ boss_alertness_cooldown' = boss_alertness_cooldown

\* C23: each primitive touches only its own gauge: reduce_stress and the
\* stress timer leave alertLevel unchanged, maybe_increase_boss_alert and
\* the cooldown timer leave stress unchanged, the penalty gate changes
\* neither, and nothing changes alertness or cooldown after construction.
C23_OwnGaugeOnly == [][OwnGaugeOnly /\ ConfigKept]_vars
C23_Witness ==
    /\ \E i \in Callers :
          /\ pc[i] = "snapshot"
          /\ waited[i] = PenaltySeconds
          /\ reduction[i] > 0
          /\ boss_increased[i]
          /\ stress_level < stress_seen[i]
    /\ pc[StressTask] = "sleep"
    /\ pc[CooldownTask] = "sleep"
    /\ boss_alert_level = MaxBossAlert - 1

\* A step raises stress only if it is the mutation of the stress timer; in
\* particular the reduce step of an invocation never does.
StressRisesByTimerOnly ==
    /\ stress_level' > stress_level => Leaves(StressTask, "mutate_locked")
    /\ \A i \in Callers :
          Leaves(i, "reduce_locked") => stress_level' <= stress_level

\* C24: an activity never increases stress: for every range min <= max that
\* reduce_stress accepts, negative ones included, stress after the call is
\* at most stress before it; stress rises only through the stress timer.
C24_ActivityNeverRaisesStress == [][StressRisesByTimerOnly]_vars

====
